---- MODULE Spec2Model ----
(***************************************************************************)
(* Model of ronoel/tatum-demo: the UTXO reconstruction of getUTXos.js      *)
(* (analyzeUTXOs, getBitcoinBalance) and the coin selection of sendBTC.js  *)
(* (sendTransaction).                                                      *)
(*                                                                         *)
(* Amounts in satoshis are integers.  An amount in BTC (a JavaScript       *)
(* number) is held as an integer count of tenths of a satoshi, so that     *)
(* Math.round(amountBTC * 100000000) is a real rounding.                   *)
(* A JavaScript object is a record; a property that is undefined is a      *)
(* field the record does not have.                                         *)
(***************************************************************************)
EXTENDS Integers, Sequences, FiniteSets, TLC

VARIABLES
  pc,               \* position of the running program
  fetchCalls,       \* offsets fetchTransactions was called with, in call order
  pages,            \* pages the history source returned, in call order
  rejections,       \* errors fetchTransactions rejected with, in call order
  offset,           \* getBitcoinBalance: let offset
  hasMore,          \* getBitcoinBalance: let hasMore
  allTransactions,  \* getBitcoinBalance: const allTransactions
  analyzeCalls,     \* arguments analyzeUTXOs was called with, in call order
  utxos,            \* analyzeUTXOs: the Map utxos when the function returns
  balance,          \* the object analyzeUTXOs returned
  amountBTC,        \* sendTransaction: parameter amountBTC
  feeBTC,           \* sendTransaction: parameter feeBTC
  confirm,          \* sendTransaction: the answer to 'Confirm transaction?'
  selectedUtxos,    \* sendTransaction: const selectedUtxos
  inputSum,         \* sendTransaction: let inputSum
  requiredAmount,   \* sendTransaction: const requiredAmount
  error,            \* the error thrown, NoError when none
  broadcasts        \* payloads handed to signAndBroadcast, in call order

vars == <<pc, fetchCalls, pages, rejections, offset, hasMore, allTransactions,
          analyzeCalls, utxos, balance, amountBTC, feeBTC, confirm, selectedUtxos,
          inputSum, requiredAmount, error, broadcasts>>

fetchVars == <<fetchCalls, pages, rejections, offset, hasMore, allTransactions>>
sendVars == <<amountBTC, feeBTC, confirm, selectedUtxos, inputSum,
              requiredAmount, broadcasts>>

(***************************************************************************)
(* Bounds of the model.                                                    *)
(***************************************************************************)
MaxTxs == 2         \* longest transaction sequence drawn for analyzeUTXOs
MaxPages == 2       \* pages after which the history source ends the history

(***************************************************************************)
(* Values of JavaScript.                                                   *)
(***************************************************************************)
Null == -1          \* JSON null in a blockNumber (block numbers are >= 0)

Has(obj, field) == field \in DOMAIN obj

\* `${v}` of a string property: the text "undefined" when the property is.
TemplateStr(obj, field) == IF Has(obj, field) THEN obj[field] ELSE "undefined"

\* `${v}` of a numeric property.
TemplateNum(obj, field) ==
  IF Has(obj, field) THEN ToString(obj[field]) ELSE "undefined"

RECURSIVE SumSeq(_)
SumSeq(s) == IF s = <<>> THEN 0 ELSE Head(s) + SumSeq(Tail(s))

(***************************************************************************)
(* analyzeUTXOs (getUTXos.js).                                             *)
(***************************************************************************)

\* input.coin && input.coin.address === address
CoinMatches(address, input) ==
  Has(input, "coin") /\ Has(input.coin, "address") /\ input.coin.address = address

\* `${tx.hash}:${i}` and `${input.prevout.hash}:${input.prevout.index}`
UtxoKey(hashText, indexText) == hashText \o ":" \o indexText

\* First pass, inner loop: the keys the inputs of one transaction spend.
RECURSIVE MarkInputs(_, _, _)
MarkInputs(address, inputs, spentUtxos) ==
  IF inputs = <<>> THEN spentUtxos
  ELSE LET input == Head(inputs)
           next == IF CoinMatches(address, input)
                   THEN spentUtxos \cup
                        {UtxoKey(TemplateStr(input.prevout, "hash"),
                                 TemplateNum(input.prevout, "index"))}
                   ELSE spentUtxos
       IN MarkInputs(address, Tail(inputs), next)

\* First pass over transactions[lo..hi], in order.  The range is walked in
\* halves and the first half is computed before the second is entered (the
\* test on firstHalf is always true), which keeps the evaluation shallow on a
\* history of several pages.
RECURSIVE MarkRange(_, _, _, _, _)
MarkRange(address, transactions, lo, hi, spentUtxos) ==
  IF lo > hi THEN spentUtxos
  ELSE IF lo = hi
       THEN MarkInputs(address, transactions[lo].inputs, spentUtxos)
       ELSE LET mid == (lo + hi) \div 2
                firstHalf == MarkRange(address, transactions, lo, mid, spentUtxos)
            IN IF firstHalf = firstHalf
               THEN MarkRange(address, transactions, mid + 1, hi, firstHalf)
               ELSE firstHalf

\* First pass that leaves out the first transaction of the sequence.
SpentUtxosSkipFirst(address, transactions) ==
  MarkRange(address, transactions, 2, Len(transactions), {})

\* First pass that reads the inputs of confirmed transactions only.
CarriesBlock(tx) == Has(tx, "blockNumber") /\ tx.blockNumber # Null
SpentUtxosConfirmedOnly(address, transactions) ==
  LET confirmedOnly == SelectSeq(transactions, CarriesBlock)
  IN MarkRange(address, confirmedOnly, 1, Len(confirmedOnly), {})

\* First pass: the Set spentUtxos over every transaction.
SpentUtxos(address, transactions) ==
  MarkRange(address, transactions, 1, Len(transactions), {})

\* isConfirmed by truthiness: block 0 and null both count as unconfirmed.
IsConfirmedTruthy(tx) == Has(tx, "blockNumber") /\ tx.blockNumber > 0

\* const isConfirmed = tx.blockNumber !== undefined && tx.blockNumber !== null
IsConfirmed(tx) == Has(tx, "blockNumber") /\ tx.blockNumber # Null

\* Map.prototype.set: an existing key keeps its place, a new key is appended.
MapSet(map, key, entry) ==
  IF \E i \in DOMAIN map : map[i].key = key
  THEN [i \in DOMAIN map |-> IF map[i].key = key THEN entry ELSE map[i]]
  ELSE Append(map, entry)

\* Second pass, the loop over tx.outputs from position i (1-based here, the
\* JavaScript index is i - 1).
RECURSIVE ProcessOutputs(_, _, _, _, _)
ProcessOutputs(address, tx, i, spentUtxos, acc) ==
  IF i > Len(tx.outputs) THEN acc
  ELSE LET output == tx.outputs[i]
           utxoKey == UtxoKey(TemplateStr(tx, "hash"), ToString(i - 1))
           value == output.value
           isSpent == utxoKey \in spentUtxos
           isConfirmed == IsConfirmed(tx)
           next ==
             IF Has(output, "address") /\ output.address = address
             THEN [acc EXCEPT
                     !.utxos = MapSet(@, utxoKey,
                                      [key |-> utxoKey, value |-> value,
                                       spent |-> isSpent,
                                       confirmed |-> isConfirmed]),
                     !.incoming = IF isConfirmed THEN @ + value ELSE @,
                     !.incomingPending = IF isConfirmed THEN @ ELSE @ + value]
             ELSE acc
       IN ProcessOutputs(address, tx, i + 1, spentUtxos, next)

\* Second pass, the loop over tx.inputs.
RECURSIVE ProcessInputs(_, _, _, _)
ProcessInputs(address, isConfirmed, inputs, acc) ==
  IF inputs = <<>> THEN acc
  ELSE LET input == Head(inputs)
           next ==
             IF CoinMatches(address, input)
             THEN [acc EXCEPT
                     !.outgoing = IF isConfirmed THEN @ + input.coin.value ELSE @,
                     !.outgoingPending =
                        IF isConfirmed THEN @ ELSE @ + input.coin.value]
             ELSE acc
       IN ProcessInputs(address, isConfirmed, Tail(inputs), next)

\* Second pass, one transaction: outputs then inputs.
ProcessTransaction(address, tx, spentUtxos, acc) ==
  ProcessInputs(address, IsConfirmed(tx), tx.inputs,
                ProcessOutputs(address, tx, 1, spentUtxos, acc))

\* Second pass over transactions[lo..hi], in order (walked in halves, the
\* first half computed before the second is entered).
RECURSIVE SecondPass(_, _, _, _, _, _)
SecondPass(address, transactions, lo, hi, spentUtxos, acc) ==
  IF lo > hi THEN acc
  ELSE IF lo = hi
       THEN ProcessTransaction(address, transactions[lo], spentUtxos, acc)
       ELSE LET mid == (lo + hi) \div 2
                firstHalf == SecondPass(address, transactions, lo, mid,
                                        spentUtxos, acc)
            IN IF firstHalf = firstHalf
               THEN SecondPass(address, transactions, mid + 1, hi, spentUtxos,
                               firstHalf)
               ELSE firstHalf

\* The state of the function before the first transaction is processed.
EmptyAcc ==
  [utxos |-> <<>>, incoming |-> 0, outgoing |-> 0,
   incomingPending |-> 0, outgoingPending |-> 0]

\* The locals of analyzeUTXOs after both passes.
Classified(address, transactions) ==
  SecondPass(address, transactions, 1, Len(transactions),
             SpentUtxos(address, transactions), EmptyAcc)

\* The sum of value over the entries map[lo..hi] that are unspent and, when
\* confirmedOnly, confirmed (walked in halves).
RECURSIVE BalanceRange(_, _, _, _)
BalanceRange(map, lo, hi, confirmedOnly) ==
  IF lo > hi THEN 0
  ELSE IF lo = hi
       THEN (IF ~map[lo].spent /\ (map[lo].confirmed \/ ~confirmedOnly)
             THEN map[lo].value ELSE 0)
       ELSE LET mid == (lo + hi) \div 2
            IN BalanceRange(map, lo, mid, confirmedOnly)
               + BalanceRange(map, mid + 1, hi, confirmedOnly)

\* Available balance that forgets the confirmed test.
AvailableBalanceAnyUnspent(map) == BalanceRange(map, 1, Len(map), FALSE)

\* Available balance: the loop over utxos.entries().
AvailableBalance(map) == BalanceRange(map, 1, Len(map), TRUE)

\* unspentUTXOs: Array.from(utxos.entries()).filter(...).map(...)
IsUnspent(entry) == ~entry.spent
UnspentUTXOs(map) ==
  LET kept == SelectSeq(map, IsUnspent)
  IN [i \in DOMAIN kept |->
        [utxo |-> kept[i].key, value |-> kept[i].value,
         confirmed |-> kept[i].confirmed]]

\* Whether analyzeUTXOs throws a TypeError on this input: tx.inputs is not
\* iterable, tx.outputs has no length, or a matching input has no prevout.
AnalyzeThrows(address, transactions) ==
  \E t \in DOMAIN transactions :
    LET tx == transactions[t] IN
      \/ ~Has(tx, "inputs")
      \/ ~Has(tx, "outputs")
      \/ \E j \in DOMAIN tx.inputs :
           CoinMatches(address, tx.inputs[j]) /\ ~Has(tx.inputs[j], "prevout")

\* The object analyzeUTXOs returns (availableBalanceBTC is a display value).
analyzeUTXOs(address, transactions) ==
  LET acc == Classified(address, transactions)
  IN [incoming |-> acc.incoming,
      outgoing |-> acc.outgoing,
      incomingPending |-> acc.incomingPending,
      outgoingPending |-> acc.outgoingPending,
      availableBalance |-> AvailableBalance(acc.utxos),
      unspentUTXOs |-> UnspentUTXOs(acc.utxos)]

(***************************************************************************)
(* The transaction records the model draws.                                *)
(***************************************************************************)
Tracked == "A"      \* the address every run tracks
Hashes == {"x", "y"}

Out(a, v) == [address |-> a, value |-> v]
In(h, i, a, v) ==
  [prevout |-> [hash |-> h, index |-> i], coin |-> [address |-> a, value |-> v]]
InNoCoin(h, i) == [prevout |-> [hash |-> h, index |-> i]]

OutputLists ==
  { <<Out("A", 3), Out("A", 1)>>, <<Out("A", 2)>>, <<Out("B", 1), Out("A", 2)>> }

InputLists ==
  { <<>>, <<InNoCoin("y", 1), In("y", 0, "B", 2), In("x", 0, "A", 3)>> }

\* blockNumber: absent, null, or a block number (0 is one).
Pool ==
  { [hash |-> h, outputs |-> o, inputs |-> i] : h \in Hashes, o \in OutputLists,
                                                 i \in InputLists }
  \cup
  { [hash |-> h, blockNumber |-> b, outputs |-> o, inputs |-> i] :
      h \in Hashes, b \in {Null, 0}, o \in OutputLists, i \in InputLists }

SeqsUpTo(S, n) == UNION { [1..k -> S] : k \in 0..n }

NoError == [name |-> "none"]

NoBalance == [incoming |-> 0, outgoing |-> 0, incomingPending |-> 0,
              outgoingPending |-> 0, availableBalance |-> 0,
              unspentUTXOs |-> <<>>]

(***************************************************************************)
(* Spec: analyzeUTXOs on a drawn transaction sequence.                     *)
(***************************************************************************)
Init ==
  /\ pc = "analyze"
  /\ allTransactions \in SeqsUpTo(Pool, MaxTxs)
  /\ fetchCalls = <<>>
  /\ pages = <<>>
  /\ rejections = <<>>
  /\ offset = 0
  /\ hasMore = FALSE
  /\ analyzeCalls = <<>>
  /\ utxos = <<>>
  /\ balance = NoBalance
  /\ amountBTC = 0
  /\ feeBTC = 0
  /\ confirm = ""
  /\ selectedUtxos = <<>>
  /\ inputSum = 0
  /\ requiredAmount = 0
  /\ error = NoError
  /\ broadcasts = <<>>

\* getBitcoinBalance, line 177: const balance = analyzeUTXOs(address, allTransactions)
Analyze ==
  /\ pc = "analyze"
  /\ analyzeCalls' = Append(analyzeCalls, allTransactions)
  /\ IF AnalyzeThrows(Tracked, allTransactions)
     THEN /\ pc' = "failed"
          /\ error' = [name |-> "TypeError"]
          /\ UNCHANGED <<utxos, balance>>
     ELSE /\ pc' = "loaded"
          /\ utxos' = Classified(Tracked, allTransactions).utxos
          /\ balance' = analyzeUTXOs(Tracked, allTransactions)
          /\ UNCHANGED error
  /\ UNCHANGED fetchVars
  /\ UNCHANGED sendVars

(***************************************************************************)
(* sendTransaction (sendBTC.js).                                           *)
(***************************************************************************)

\* Math.round(x * 100000000) of an amount held in tenths of a satoshi:
\* the nearest integer, a half rounding up.
MathRound(tenths) == (tenths + 5) \div 10

\* String.prototype.toLowerCase on the answers the model types.
ToLowerCase(s) ==
  CASE s = "YES" -> "yes"
    [] s = "Y" -> "y"
    [] s = "NO" -> "no"
    [] OTHER -> s

\* Array.prototype.sort((a, b) => b.value - a.value): stable, value descending.
RECURSIVE InsertByValueDesc(_, _)
InsertByValueDesc(sorted, utxo) ==
  IF sorted = <<>> THEN <<utxo>>
  ELSE IF Head(sorted).value >= utxo.value
       THEN <<Head(sorted)>> \o InsertByValueDesc(Tail(sorted), utxo)
       ELSE <<utxo>> \o sorted

RECURSIVE SortByValueDesc(_)
SortByValueDesc(list) ==
  IF list = <<>> THEN <<>>
  ELSE InsertByValueDesc(SortByValueDesc(SubSeq(list, 1, Len(list) - 1)),
                         list[Len(list)])

\* sortedUtxos without the filter on confirmed.
SortedUtxosUnfiltered(bal) == SortByValueDesc(bal.unspentUTXOs)

\* balance.unspentUTXOs.filter(utxo => utxo.confirmed).sort(...)
IsConfirmedUtxo(utxo) == utxo.confirmed
SortedUtxos(bal) == SortByValueDesc(SelectSeq(bal.unspentUTXOs, IsConfirmedUtxo))

\* The loop without its break: every sorted entry is pushed.
RECURSIVE SelectLoopNoBreak(_, _, _, _)
SelectLoopNoBreak(sortedUtxos, selected, sum, required) ==
  IF sortedUtxos = <<>> THEN [selectedUtxos |-> selected, inputSum |-> sum]
  ELSE SelectLoopNoBreak(Tail(sortedUtxos), Append(selected, Head(sortedUtxos)),
                         sum + Head(sortedUtxos).value, required)

\* The loop over sortedUtxos: push, add, break once the sum reaches the need.
RECURSIVE SelectLoop(_, _, _, _)
SelectLoop(sortedUtxos, selected, sum, required) ==
  IF sortedUtxos = <<>> THEN [selectedUtxos |-> selected, inputSum |-> sum]
  ELSE LET utxo == Head(sortedUtxos)
           pushed == Append(selected, utxo)
           added == sum + utxo.value
       IN IF added >= required
          THEN [selectedUtxos |-> pushed, inputSum |-> added]
          ELSE SelectLoop(Tail(sortedUtxos), pushed, added, required)

\* requiredAmount that forgets the fee.
RequiredAmountNoFee(amount, fee) == MathRound(amount)

\* const requiredAmount = amountSatoshis + feeSatoshis
RequiredAmount(amount, fee) == MathRound(amount) + MathRound(fee)

\* if (inputSum < requiredAmount) throw new Error('Insufficient confirmed funds...')
InsufficientFunds(sum, required) == sum < required

\* payloadUtxo
Payload(fromAddress, toAddress, amount, fee) ==
  [fromAddress |-> fromAddress, to |-> toAddress, value |-> amount,
   fee |-> fee, changeAddress |-> fromAddress]

\* The (amountBTC, feeBTC) pairs sendTransaction is called with, in tenths of
\* a satoshi, and the answers typed at its prompt.
Requests == { <<10, 10>>, <<15, 10>>, <<40, 10>>, <<60, 10>> }
Answers == { "yes", "Y", "no", "" }
Receiver == "R"

\* A test of the answer that lets every answer through.
DeclinedNever(answer) == FALSE

\* if (confirm.toLowerCase() !== 'yes' && confirm.toLowerCase() !== 'y')
Declined(answer) == ToLowerCase(answer) # "yes" /\ ToLowerCase(answer) # "y"

\* sendTransaction is called and prints its summary, up to the prompt.
CallSendTransaction ==
  /\ pc = "loaded"
  /\ \E req \in Requests :
       /\ amountBTC' = req[1]
       /\ feeBTC' = req[2]
  /\ pc' = "prompt"
  /\ UNCHANGED <<confirm, selectedUtxos, inputSum, requiredAmount, broadcasts>>
  /\ UNCHANGED <<analyzeCalls, utxos, balance, error>>
  /\ UNCHANGED fetchVars

\* The answer arrives: return null, or select coins and then either throw or
\* call signAndBroadcast.
AnswerConfirm ==
  /\ pc = "prompt"
  /\ \E answer \in Answers :
       /\ confirm' = answer
       /\ IF Declined(answer)
          THEN /\ pc' = "cancelled"
               /\ UNCHANGED <<selectedUtxos, inputSum, requiredAmount,
                              broadcasts, error>>
          ELSE LET required == RequiredAmount(amountBTC, feeBTC)
                   plan == SelectLoop(SortedUtxos(balance), <<>>, 0, required)
               IN /\ selectedUtxos' = plan.selectedUtxos
                  /\ inputSum' = plan.inputSum
                  /\ requiredAmount' = required
                  /\ IF InsufficientFunds(plan.inputSum, required)
                     THEN /\ pc' = "failed"
                          /\ error' = [name |-> "InsufficientFunds",
                                       have |-> plan.inputSum,
                                       need |-> required]
                          /\ UNCHANGED broadcasts
                     ELSE /\ pc' = "broadcasting"
                          /\ broadcasts' =
                               Append(broadcasts,
                                      Payload(Tracked, Receiver, amountBTC, feeBTC))
                          /\ UNCHANGED error
  /\ UNCHANGED <<amountBTC, feeBTC, analyzeCalls, utxos, balance>>
  /\ UNCHANGED fetchVars

\* signAndBroadcast resolves with a transaction hash.
BroadcastResolves ==
  /\ pc = "broadcasting"
  /\ pc' = "sent"
  /\ UNCHANGED <<analyzeCalls, utxos, balance, error>>
  /\ UNCHANGED fetchVars
  /\ UNCHANGED sendVars

\* signAndBroadcast rejects: the error is logged and thrown again.
BroadcastRejects ==
  /\ pc = "broadcasting"
  /\ pc' = "failed"
  /\ error' = [name |-> "BroadcastError"]
  /\ UNCHANGED <<analyzeCalls, utxos, balance>>
  /\ UNCHANGED fetchVars
  /\ UNCHANGED sendVars

Next ==
  \/ Analyze
  \/ CallSendTransaction
  \/ AnswerConfirm
  \/ BroadcastResolves
  \/ BroadcastRejects

Spec == Init /\ [][Next]_vars

(***************************************************************************)
(* SpecMalformed: analyzeUTXOs on sequences that may hold a record with a  *)
(* required field undefined.                                               *)
(***************************************************************************)
MalformedPool ==
  { [blockNumber |-> 0, outputs |-> <<Out("A", 2)>>, inputs |-> <<>>],
    [hash |-> "x", blockNumber |-> 0, inputs |-> <<>>],
    [hash |-> "x", blockNumber |-> 0, outputs |-> <<Out("A", 2)>>],
    [hash |-> "x", blockNumber |-> 0, outputs |-> <<[value |-> 2]>>,
     inputs |-> <<>>],
    [hash |-> "y", blockNumber |-> 0, outputs |-> <<>>,
     inputs |-> <<[coin |-> [address |-> "A", value |-> 3]]>>] }

InitMalformed ==
  /\ pc = "analyze"
  /\ allTransactions \in SeqsUpTo(Pool \cup MalformedPool, MaxTxs)
  /\ fetchCalls = <<>>
  /\ pages = <<>>
  /\ rejections = <<>>
  /\ offset = 0
  /\ hasMore = FALSE
  /\ analyzeCalls = <<>>
  /\ utxos = <<>>
  /\ balance = NoBalance
  /\ amountBTC = 0
  /\ feeBTC = 0
  /\ confirm = ""
  /\ selectedUtxos = <<>>
  /\ inputSum = 0
  /\ requiredAmount = 0
  /\ error = NoError
  /\ broadcasts = <<>>

SpecMalformed == InitMalformed /\ [][Next]_vars

(***************************************************************************)
(* getBitcoinBalance (getUTXos.js): the pagination loop.                   *)
(***************************************************************************)
pageSize == 50

\* The record the history source holds at position n (1-based) of the
\* history of the tracked address.
HistoryRecord(kind, n) ==
  IF kind = "confirmed"
  THEN [hash |-> "t" \o ToString(n), blockNumber |-> n,
        outputs |-> <<Out("A", 2)>>, inputs |-> <<>>]
  ELSE [hash |-> "t" \o ToString(n),
        outputs |-> <<Out("B", 1), Out("A", 1)>>,
        inputs |-> <<In("t" \o ToString(n - 1), 0, "A", 2)>>]

\* A page of n records answering the call with offset atOffset.
Page(kind, n, atOffset) == [i \in 1..n |-> HistoryRecord(kind, atOffset + i)]

PageKinds == {"confirmed", "pending"}
ShortLengths == {0, 1, 2, pageSize - 1}

\* The page lengths the source may answer with: full pages only while the
\* history has not ended.
PageLengths == IF Len(pages) < MaxPages THEN ShortLengths \cup {pageSize}
               ELSE ShortLengths

\* hasMore after a page that only tests for the empty page.
HasMoreAfterEmptyOnly(transactions) == Len(transactions) # 0

\* hasMore after a page: false on an empty page and on a page shorter than
\* pageSize.
HasMoreAfter(transactions) ==
  IF Len(transactions) = 0 THEN FALSE
  ELSE IF Len(transactions) < pageSize THEN FALSE ELSE TRUE

InitFetch ==
  /\ pc = "loop"
  /\ allTransactions = <<>>
  /\ fetchCalls = <<>>
  /\ pages = <<>>
  /\ rejections = <<>>
  /\ offset = 0
  /\ hasMore = TRUE
  /\ analyzeCalls = <<>>
  /\ utxos = <<>>
  /\ balance = NoBalance
  /\ amountBTC = 0
  /\ feeBTC = 0
  /\ confirm = ""
  /\ selectedUtxos = <<>>
  /\ inputSum = 0
  /\ requiredAmount = 0
  /\ error = NoError
  /\ broadcasts = <<>>

\* while (hasMore): fetchTransactions(address, pageSize, offset) is called,
\* or the loop is left for the analysis.
LoopTest ==
  /\ pc = "loop"
  /\ IF hasMore
     THEN /\ fetchCalls' = Append(fetchCalls, offset)
          /\ pc' = "awaiting"
     ELSE /\ pc' = "analyze"
          /\ UNCHANGED fetchCalls
  /\ UNCHANGED <<pages, rejections, offset, hasMore, allTransactions>>
  /\ UNCHANGED <<analyzeCalls, utxos, balance, error>>
  /\ UNCHANGED sendVars

\* The awaited page arrives.
FetchResolves ==
  /\ pc = "awaiting"
  /\ \E kind \in PageKinds : \E n \in PageLengths :
       LET transactions == Page(kind, n, fetchCalls[Len(fetchCalls)])
       IN /\ pages' = Append(pages, transactions)
          /\ allTransactions' = IF Len(transactions) = 0 THEN allTransactions
                                ELSE allTransactions \o transactions
          /\ offset' = IF Len(transactions) = 0 THEN offset ELSE offset + pageSize
          /\ hasMore' = HasMoreAfter(transactions)
  /\ pc' = "loop"
  /\ UNCHANGED <<fetchCalls, rejections>>
  /\ UNCHANGED <<analyzeCalls, utxos, balance, error>>
  /\ UNCHANGED sendVars

\* The errors fetchTransactions rejects with: the error of the request
\* (req.on('error')), or the one made when the response does not parse.
SourceErrors ==
  { [name |-> "Error", message |-> "ECONNRESET"],
    [name |-> "Error", message |-> "ETIMEDOUT"],
    [name |-> "Error", message |-> "Failed to parse response: Unexpected token"] }

\* A catch that throws an error of its own in place of the one it caught.
CatchRethrowsWrapped(caught) ==
  [name |-> "Error", message |-> "Error fetching Bitcoin balance"]

\* catch (error) { console.error(...); throw error; }
CatchRethrows(caught) == caught

\* The awaited fetch rejects: the rejection is thrown at the await, caught,
\* logged and thrown again; the function is left.
FetchRejects ==
  /\ pc = "awaiting"
  /\ \E rejection \in SourceErrors :
       /\ rejections' = Append(rejections, rejection)
       /\ error' = CatchRethrows(rejection)
  /\ pc' = "failed"
  /\ UNCHANGED <<fetchCalls, pages, offset, hasMore, allTransactions>>
  /\ UNCHANGED <<analyzeCalls, utxos, balance>>
  /\ UNCHANGED sendVars

NextFetch ==
  \/ LoopTest
  \/ FetchResolves
  \/ FetchRejects
  \/ Analyze

\* The loop runs on while it can: the next fetch is issued once the loop test
\* passes, and the awaited promise settles, resolved or rejected.
SpecFetch ==
  /\ InitFetch
  /\ [][NextFetch]_vars
  /\ WF_vars(LoopTest)
  /\ WF_vars(FetchResolves \/ FetchRejects)

(***************************************************************************)
(* main (sendBTC.js): from the balance to the call of sendTransaction.     *)
(***************************************************************************)
feeInSatoshis == 1000     \* const feeInSatoshis = 1000
dustLimit == 546          \* the 546 of main and of getAmountToSend

\* A maximum that forgets the fee.
calculateMaxSendableNoFee(availableBalance, fee) == availableBalance

\* calculateMaxSendable
calculateMaxSendable(availableBalance, fee) ==
  LET maxSendable == availableBalance - fee
  IN IF maxSendable > 0 THEN maxSendable ELSE 0

\* What is typed at 'Enter amount to send in BTC': cancel, a text parseFloat
\* makes NaN of, or a number (held in tenths of a satoshi).
Typed(tenths) == [kind |-> "number", tenths |-> tenths]
TypedAmounts ==
  { [kind |-> "cancel"], [kind |-> "NaN"],
    Typed(0), Typed(4), Typed(5454), Typed(5455), Typed(5474), Typed(5475),
    Typed(11470), Typed(11475), Typed(20000) }

\* One pass of the loop of getAmountToSend on the answer typed:
\* "cancel" (return null), "again" (continue) or "accept" (return amountBTC).
AmountVerdict(typed, availableBalance, fee) ==
  IF typed.kind = "cancel" THEN "cancel"
  ELSE IF typed.kind = "NaN" \/ typed.tenths <= 0 THEN "again"
  ELSE IF MathRound(typed.tenths) > calculateMaxSendable(availableBalance, fee)
       THEN "again"
  ELSE IF MathRound(typed.tenths) < dustLimit THEN "again"
  ELSE "accept"

\* The histories of the wallets main is run on.
MainOutputLists ==
  { <<Out("A", 1000), Out("A", 547)>>, <<Out("A", 1546)>>, <<Out("A", 600)>> }

MainInputLists == { <<>>, <<In("x", 0, "A", 1000)>> }

MainPool ==
  { [hash |-> h, outputs |-> o, inputs |-> i] :
      h \in Hashes, o \in MainOutputLists, i \in MainInputLists }
  \cup
  { [hash |-> h, blockNumber |-> 0, outputs |-> o, inputs |-> i] :
      h \in Hashes, o \in MainOutputLists, i \in MainInputLists }

InitMain ==
  /\ pc = "analyze"
  /\ allTransactions \in SeqsUpTo(MainPool, MaxTxs)
  /\ fetchCalls = <<>>
  /\ pages = <<>>
  /\ rejections = <<>>
  /\ offset = 0
  /\ hasMore = FALSE
  /\ analyzeCalls = <<>>
  /\ utxos = <<>>
  /\ balance = NoBalance
  /\ amountBTC = 0
  /\ feeBTC = 0
  /\ confirm = ""
  /\ selectedUtxos = <<>>
  /\ inputSum = 0
  /\ requiredAmount = 0
  /\ error = NoError
  /\ broadcasts = <<>>

\* The balance is displayed; a wallet with availableBalance === 0 ends the
\* run, any other is asked 'Do you want to send Bitcoin?'.
CheckFunds ==
  /\ pc = "loaded"
  /\ pc' = IF balance.availableBalance = 0 THEN "done" ELSE "sendChoice"
  /\ UNCHANGED <<analyzeCalls, utxos, balance, error>>
  /\ UNCHANGED fetchVars
  /\ UNCHANGED sendVars

\* The answer to 'Do you want to send Bitcoin?' arrives: the run ends, or the
\* fee is set and the balance is tested against fee + 546, and then the run
\* ends or getAmountToSend is called and asks for the amount.
AnswerSendChoice ==
  /\ pc = "sendChoice"
  /\ \E sendChoice \in Answers :
       IF ToLowerCase(sendChoice) # "yes" /\ ToLowerCase(sendChoice) # "y"
       THEN /\ pc' = "done"
            /\ UNCHANGED feeBTC
       ELSE /\ feeBTC' = feeInSatoshis * 10
            /\ pc' = IF balance.availableBalance <= feeInSatoshis + dustLimit
                     THEN "done" ELSE "askAmount"
  /\ UNCHANGED <<amountBTC, confirm, selectedUtxos, inputSum, requiredAmount,
                 broadcasts>>
  /\ UNCHANGED <<analyzeCalls, utxos, balance, error>>
  /\ UNCHANGED fetchVars

\* An answer to 'Enter amount to send in BTC' arrives: getAmountToSend
\* returns null and the run ends, asks again, or returns the amount and main
\* asks for the receiver.
AnswerAmount ==
  /\ pc = "askAmount"
  /\ \E typed \in TypedAmounts :
       LET verdict == AmountVerdict(typed, balance.availableBalance, feeInSatoshis)
       IN /\ pc' = CASE verdict = "cancel" -> "done"
                     [] verdict = "again" -> "askAmount"
                     [] OTHER -> "askReceiver"
          /\ amountBTC' = IF verdict = "accept" THEN typed.tenths ELSE amountBTC
  /\ UNCHANGED <<feeBTC, confirm, selectedUtxos, inputSum, requiredAmount,
                 broadcasts>>
  /\ UNCHANGED <<analyzeCalls, utxos, balance, error>>
  /\ UNCHANGED fetchVars

\* An answer to 'Enter receiver Bitcoin address' arrives: an empty one is
\* asked again, the other is passed to sendTransaction with the amount, the
\* fee and the balance; sendTransaction prints its summary, up to the prompt.
AnswerReceiver ==
  /\ pc = "askReceiver"
  /\ \E receiverAddress \in {"", Receiver} :
       pc' = IF receiverAddress = "" THEN "askReceiver" ELSE "prompt"
  /\ UNCHANGED <<analyzeCalls, utxos, balance, error>>
  /\ UNCHANGED fetchVars
  /\ UNCHANGED sendVars

NextMain ==
  \/ Analyze
  \/ CheckFunds
  \/ AnswerSendChoice
  \/ AnswerAmount
  \/ AnswerReceiver
  \/ AnswerConfirm
  \/ BroadcastResolves
  \/ BroadcastRejects

SpecMain == InitMain /\ [][NextMain]_vars

(***************************************************************************)
(* Properties of analyzeUTXOs.                                             *)
(***************************************************************************)
\* analyzeUTXOs has just returned its result.
Analyzed == pc = "loaded"

\* The sum of f over a finite set of tuples whose last component is a number.
RECURSIVE SumLast(_)
SumLast(S) ==
  IF S = {} THEN 0
  ELSE LET e == CHOOSE e \in S : TRUE IN e[Len(e)] + SumLast(S \ {e})

\* A record of the history carries a block number.
HasBlockNumber(tx) == "blockNumber" \in DOMAIN tx /\ tx.blockNumber >= 0

\* (t, o): output o (0-based) of the t-th record pays the tracked address.
PaidOutputs ==
  { <<t, o>> \in (DOMAIN allTransactions) \X (0..3) :
      /\ o + 1 \in DOMAIN allTransactions[t].outputs
      /\ allTransactions[t].outputs[o + 1].address = Tracked }

\* (t, j): input j of the t-th record spends a coin of the tracked address.
OwnInputs ==
  { <<t, j>> \in (DOMAIN allTransactions) \X (1..3) :
      /\ j \in DOMAIN allTransactions[t].inputs
      /\ "coin" \in DOMAIN allTransactions[t].inputs[j]
      /\ allTransactions[t].inputs[j].coin.address = Tracked }

\* Some record of the history spends output reference (hash, index).
SpentInHistory(hash, index) ==
  \E p \in OwnInputs :
    /\ allTransactions[p[1]].inputs[p[2]].prevout.hash = hash
    /\ allTransactions[p[1]].inputs[p[2]].prevout.index = index

\* The positions of the UTXO entries for output reference (hash, index).
EntriesOf(hash, index) ==
  { i \in DOMAIN utxos : utxos[i].key = hash \o ":" \o ToString(index) }

Spendable == { i \in DOMAIN utxos : ~utxos[i].spent /\ utxos[i].confirmed }
SpendableTotal == SumLast({ <<i, utxos[i].value>> : i \in Spendable })

\* C1: availableBalance is the sum of value over exactly the UTXO entries
\* that are unspent and confirmed; pending and spent entries add nothing.
C1_AvailableBalance ==
  Analyzed => balance.availableBalance = SpendableTotal

\* C1 witness: an analysed history with a spendable, a pending and a spent
\* entry.
C1_Witness ==
  /\ Analyzed
  /\ balance.availableBalance > 0
  /\ \E i \in DOMAIN utxos : utxos[i].spent /\ utxos[i].confirmed
  /\ \E i \in DOMAIN utxos : ~utxos[i].spent /\ ~utxos[i].confirmed

\* C2: the entry of output reference (hash, index) is spent iff some record
\* of the sequence has an input of the tracked address with that previous
\* output, wherever the spender stands and whatever its confirmation.
C2_SpentIff ==
  Analyzed =>
    \A p \in PaidOutputs :
      LET hash == allTransactions[p[1]].hash IN
        /\ Cardinality(EntriesOf(hash, p[2])) = 1
        /\ \A i \in EntriesOf(hash, p[2]) :
             utxos[i].spent <=> SpentInHistory(hash, p[2])

\* C2 witness: an output spent by an unconfirmed record that stands before
\* the record that creates it.
C2_Witness ==
  /\ Analyzed
  /\ \E p \in PaidOutputs : \E q \in OwnInputs :
       /\ q[1] < p[1]
       /\ ~HasBlockNumber(allTransactions[q[1]])
       /\ allTransactions[q[1]].inputs[q[2]].prevout.hash = allTransactions[p[1]].hash
       /\ allTransactions[q[1]].inputs[q[2]].prevout.index = p[2]
       /\ \E i \in EntriesOf(allTransactions[p[1]].hash, p[2]) : utxos[i].spent

\* The permutations of a sequence.
Reorderings(seq) ==
  { [i \in DOMAIN seq |-> seq[f[i]]] :
      f \in { g \in [DOMAIN seq -> DOMAIN seq] :
                \A a, b \in DOMAIN seq : a # b => g[a] # g[b] } }

\* The classification of a run: output reference -> (value, spent, confirmed),
\* and the available balance.
Classification(transactions) ==
  LET acc == Classified(Tracked, transactions)
  IN [entries |-> { acc.utxos[i] : i \in DOMAIN acc.utxos },
      availableBalance |-> analyzeUTXOs(Tracked, transactions).availableBalance]

\* Records that create the same output reference agree on its value and on
\* whether they carry a block number.
CreatorsAgree ==
  \A p, q \in PaidOutputs :
    (allTransactions[p[1]].hash = allTransactions[q[1]].hash /\ p[2] = q[2]) =>
      /\ allTransactions[p[1]].outputs[p[2] + 1].value
           = allTransactions[q[1]].outputs[q[2] + 1].value
      /\ HasBlockNumber(allTransactions[p[1]]) <=> HasBlockNumber(allTransactions[q[1]])

\* C3 as stated: every permutation of every sequence is classified alike.
C3_AnyOrder ==
  Analyzed =>
    \A perm \in Reorderings(allTransactions) :
      Classification(perm) =
        [entries |-> { utxos[i] : i \in DOMAIN utxos },
         availableBalance |-> balance.availableBalance]

\* C3 amended: every permutation is classified alike when the records that
\* create the same output reference agree on its value and confirmation.
C3_AnyOrderAgreeing ==
  (Analyzed /\ CreatorsAgree) =>
    \A perm \in Reorderings(allTransactions) :
      Classification(perm) =
        [entries |-> { utxos[i] : i \in DOMAIN utxos },
         availableBalance |-> balance.availableBalance]

\* C3 witness: two different records, one spending an output of the other,
\* with agreeing creators and a non-empty classification.
C3_Witness ==
  /\ Analyzed
  /\ CreatorsAgree
  /\ Len(allTransactions) >= 2
  /\ allTransactions[1] # allTransactions[2]
  /\ \E i \in DOMAIN utxos : utxos[i].spent
  /\ \E i \in DOMAIN utxos : ~utxos[i].spent

\* The sequence without its d-th record.
Without(seq, d) == SubSeq(seq, 1, d - 1) \o SubSeq(seq, d + 1, Len(seq))

\* C4 as stated: a second record identical to an earlier one changes nothing
\* in the result: entries, availableBalance, and the four sums.
C4_DuplicateIdempotent ==
  Analyzed =>
    \A d \in DOMAIN allTransactions :
      (\E e \in 1..(d - 1) : allTransactions[e] = allTransactions[d]) =>
        /\ Classification(Without(allTransactions, d)).entries
             = { utxos[i] : i \in DOMAIN utxos }
        /\ analyzeUTXOs(Tracked, Without(allTransactions, d)) = balance

\* C5: incoming and outgoing sums follow the confirmation of the record that
\* holds the output or the input; an output whose creating records all lack
\* a block number is counted pending and is not spendable.
C5_Sums ==
  Analyzed =>
    /\ balance.incoming =
         SumLast({ <<p, allTransactions[p[1]].outputs[p[2] + 1].value>> :
                     p \in { q \in PaidOutputs : HasBlockNumber(allTransactions[q[1]]) } })
    /\ balance.incomingPending =
         SumLast({ <<p, allTransactions[p[1]].outputs[p[2] + 1].value>> :
                     p \in { q \in PaidOutputs : ~HasBlockNumber(allTransactions[q[1]]) } })
    /\ balance.outgoing =
         SumLast({ <<p, allTransactions[p[1]].inputs[p[2]].coin.value>> :
                     p \in { q \in OwnInputs : HasBlockNumber(allTransactions[q[1]]) } })
    /\ balance.outgoingPending =
         SumLast({ <<p, allTransactions[p[1]].inputs[p[2]].coin.value>> :
                     p \in { q \in OwnInputs : ~HasBlockNumber(allTransactions[q[1]]) } })
    /\ \A p \in PaidOutputs :
         (\A q \in PaidOutputs :
            (allTransactions[q[1]].hash = allTransactions[p[1]].hash /\ q[2] = p[2])
              => ~HasBlockNumber(allTransactions[q[1]]))
         => \A i \in EntriesOf(allTransactions[p[1]].hash, p[2]) :
              ~utxos[i].confirmed /\ i \notin Spendable

\* C5 witness: a confirmed record spends an output that an unconfirmed record
\* created, and a pending output is unspent.
C5_Witness ==
  /\ Analyzed
  /\ balance.outgoing > 0
  /\ balance.incomingPending > 0
  /\ balance.incoming > 0
  /\ balance.outgoingPending > 0
  /\ \E i \in DOMAIN utxos : ~utxos[i].spent /\ ~utxos[i].confirmed
  /\ \E p \in PaidOutputs : \E q \in OwnInputs :
       /\ ~HasBlockNumber(allTransactions[p[1]])
       /\ HasBlockNumber(allTransactions[q[1]])
       /\ allTransactions[q[1]].inputs[q[2]].prevout.hash = allTransactions[p[1]].hash
       /\ allTransactions[q[1]].inputs[q[2]].prevout.index = p[2]

(***************************************************************************)
(* Properties of the coin selection of sendTransaction.                    *)
(***************************************************************************)

\* The whole number of satoshis nearest to an amount in tenths of a satoshi.
NearestSatoshis(tenths) ==
  CHOOSE r \in 0..tenths : 10 * r - 5 <= tenths /\ tenths < 10 * r + 5

\* requestedAmount + fee of the running call.
Requested == NearestSatoshis(amountBTC) + NearestSatoshis(feeBTC)

\* The selection ran, and how it ended.
SelectionFailed == pc = "failed" /\ error.name = "InsufficientFunds"
SelectionSucceeded ==
  pc \in {"broadcasting", "sent"} \/ (pc = "failed" /\ error.name = "BroadcastError")
SelectionRan == SelectionFailed \/ SelectionSucceeded

SelectedValues == [i \in DOMAIN selectedUtxos |-> selectedUtxos[i].value]
SelectedKeys == { selectedUtxos[i].utxo : i \in DOMAIN selectedUtxos }

\* C6: when the eligible entries total at least requestedAmount + fee the
\* selection succeeds; the selected values sum to at least that, the change
\* sum - requestedAmount - fee is >= 0, and the plan is the shortest prefix
\* of the value-descending order that reaches the threshold.
C6_SelectionSuccess ==
  SelectionRan =>
    /\ SpendableTotal >= Requested => SelectionSucceeded
    /\ SelectionSucceeded =>
         /\ inputSum = SumSeq(SelectedValues)
         /\ inputSum >= Requested
         /\ inputSum - NearestSatoshis(amountBTC) - NearestSatoshis(feeBTC) >= 0
         /\ selectedUtxos # <<>> =>
              SumSeq(SubSeq(SelectedValues, 1, Len(selectedUtxos) - 1)) < Requested
         /\ \A i, j \in DOMAIN selectedUtxos :
              i < j => /\ SelectedValues[i] >= SelectedValues[j]
                       /\ selectedUtxos[i].utxo # selectedUtxos[j].utxo
         /\ \A i \in Spendable :
              utxos[i].key \notin SelectedKeys =>
                \A j \in DOMAIN selectedUtxos : utxos[i].value <= SelectedValues[j]

\* C6 witness: two entries are selected with change left over, and further
\* eligible entries are left out.
C6_Witness ==
  /\ pc = "broadcasting"
  /\ Len(selectedUtxos) = 2
  /\ Cardinality(Spendable) > 2
  /\ inputSum > Requested

\* C7: when the eligible entries total less than requestedAmount + fee the
\* selection fails with the Insufficient-funds error, which carries the
\* available and the required amount (shortfall = required - available),
\* and signAndBroadcast is never called.
C7_SelectionFailure ==
  SelectionRan =>
    /\ SpendableTotal < Requested => SelectionFailed
    /\ SelectionFailed =>
         /\ error.have = SpendableTotal
         /\ error.need = Requested
         /\ error.need - error.have = Requested - SpendableTotal
         /\ error.need - error.have > 0
         /\ broadcasts = <<>>

\* C7 witness: some eligible value exists and is not enough.
C7_Witness ==
  /\ SelectionFailed
  /\ Spendable # {}
  /\ error.have > 0
  /\ error.need - error.have = 1

\* C8: every entry of the selection plan is an unspent, confirmed entry of
\* the UTXO set, also when a larger unconfirmed unspent entry exists and when
\* the confirmed entries are not enough.
C8_OnlyConfirmedSelected ==
  SelectionRan =>
    \A s \in DOMAIN selectedUtxos :
      /\ selectedUtxos[s].confirmed
      /\ \E i \in Spendable :
           /\ utxos[i].key = selectedUtxos[s].utxo
           /\ utxos[i].value = selectedUtxos[s].value

\* C8 witness: the confirmed entries are not enough although an unconfirmed,
\* unspent entry larger than every selected one would cover the request.
C8_Witness ==
  /\ SelectionFailed
  /\ selectedUtxos # <<>>
  /\ \E i \in DOMAIN utxos :
       /\ ~utxos[i].spent
       /\ ~utxos[i].confirmed
       /\ \A s \in DOMAIN selectedUtxos : utxos[i].value > selectedUtxos[s].value
       /\ inputSum + utxos[i].value >= Requested

\* The answer typed at 'Confirm transaction?' is yes or y, in any case.
SaidYes == confirm \in {"yes", "y", "YES", "Yes", "Y"}

\* The prompt of sendTransaction has been answered.
Answered == pc = "cancelled" \/ SelectionRan

\* What C12 says of every state.
ConfirmedBroadcast ==
  /\ Len(broadcasts) <= 1
  /\ broadcasts # <<>> =>
       /\ Answered
       /\ SaidYes
       /\ inputSum = SumSeq(SelectedValues)
       /\ inputSum >= Requested
       /\ broadcasts[1].value = amountBTC
       /\ broadcasts[1].fee = feeBTC
  /\ (Answered /\ ~SaidYes) =>
       /\ pc = "cancelled"
       /\ selectedUtxos = <<>>
       /\ inputSum = 0
       /\ requiredAmount = 0
       /\ broadcasts = <<>>
       /\ error = NoError
  /\ pc = "cancelled" => ~SaidYes

\* What C12 says of every step: the step that calls signAndBroadcast is the
\* first to do so, starts at the prompt and ends with the answer given and
\* the selection at or above amount + fee.
BroadcastStep ==
  broadcasts' # broadcasts =>
    /\ pc = "prompt"
    /\ broadcasts = <<>>
    /\ Len(broadcasts') = 1
    /\ confirm' \in {"yes", "y", "YES", "Yes", "Y"}
    /\ SumSeq([i \in DOMAIN selectedUtxos' |-> selectedUtxos'[i].value])
         >= NearestSatoshis(amountBTC) + NearestSatoshis(feeBTC)

\* C12: signAndBroadcast is called at most once, and only by the step in
\* which the prompt was answered yes or y (in any letter case) and the coin
\* selection reached amount + fee; any other answer returns with nothing
\* selected, nothing signed and nothing broadcast.
C12_ConfirmBeforeBroadcast ==
  /\ []ConfirmedBroadcast
  /\ [][BroadcastStep]_vars

\* C12 witness: the transaction was broadcast after the answer Y.
C12_Witness ==
  /\ pc = "sent"
  /\ confirm = "Y"
  /\ Len(broadcasts) = 1
  /\ Len(selectedUtxos) >= 2

\* getAmountToSend has returned an amount to main.
AmountAccepted == pc \in {"askReceiver", "prompt"} \/ Answered

MissesField(tx) ==
  \/ "hash" \notin DOMAIN tx
  \/ "outputs" \notin DOMAIN tx
  \/ "inputs" \notin DOMAIN tx
  \/ /\ "outputs" \in DOMAIN tx
     /\ \E o \in DOMAIN tx.outputs :
          "address" \notin DOMAIN tx.outputs[o] \/ "value" \notin DOMAIN tx.outputs[o]
  \/ /\ "inputs" \in DOMAIN tx
     /\ \E j \in DOMAIN tx.inputs :
          /\ "coin" \in DOMAIN tx.inputs[j]
          /\ tx.inputs[j].coin.address = Tracked
          /\ "prevout" \notin DOMAIN tx.inputs[j]

\* C9 as stated: a sequence holding a record that misses a required field
\* makes analyzeUTXOs fail; no UTXO set and no balance is returned.
C9_MalformedAborts ==
  (pc # "analyze" /\ \E t \in DOMAIN allTransactions : MissesField(allTransactions[t]))
    => /\ pc = "failed"
       /\ error # NoError
       /\ utxos = <<>>
       /\ balance = NoBalance

RECURSIVE Concat(_)
Concat(seqs) == IF seqs = <<>> THEN <<>> ELSE Head(seqs) \o Concat(Tail(seqs))

\* What C10 says of every state of getBitcoinBalance.
FetchOrder ==
  /\ \A i \in DOMAIN fetchCalls : fetchCalls[i] = (i - 1) * pageSize
  /\ Len(pages) <= Len(fetchCalls)
  /\ \A i \in DOMAIN pages :
       Len(pages[i]) < pageSize => (i = Len(pages) /\ Len(fetchCalls) = Len(pages))
  /\ Len(analyzeCalls) <= 1
  /\ pc = "loaded" => Len(analyzeCalls) = 1
  /\ analyzeCalls # <<>> =>
       /\ pages # <<>>
       /\ Len(pages[Len(pages)]) < pageSize
       /\ Len(fetchCalls) = Len(pages)
       /\ analyzeCalls[1] = Concat(pages)

\* C10: the offsets requested are 0, pageSize, 2*pageSize, ...; no page is
\* requested after the first empty or short page; analyzeUTXOs runs at most
\* once, only after that page, on the concatenation of all pages in fetch
\* order; and once the source answers with a short or empty page the loop
\* ends.
C10_Pagination ==
  /\ []FetchOrder
  /\ <>(pc \in {"analyze", "loaded", "failed"})

\* C10 witness: the analysis has run on a history of more than one page.
C10_Witness ==
  /\ pc = "loaded"
  /\ Len(pages) >= 2
  /\ Len(analyzeCalls) = 1
  /\ Len(analyzeCalls[1]) > pageSize
  /\ fetchCalls[Len(fetchCalls)] >= pageSize

\* C11: once a page fetch has failed, getBitcoinBalance has thrown that very
\* error; the failed call is the last call to fetchTransactions (no retry of
\* its offset, no further page), analyzeUTXOs was never called, and no
\* balance was built from the pages fetched before.
C11_FetchFailure ==
  rejections # <<>> =>
    /\ pc = "failed"
    /\ Len(rejections) = 1
    /\ error = rejections[1]
    /\ Len(fetchCalls) = Len(pages) + 1
    /\ \A i, j \in DOMAIN fetchCalls : i # j => fetchCalls[i] # fetchCalls[j]
    /\ analyzeCalls = <<>>
    /\ utxos = <<>>
    /\ balance = NoBalance

\* C11 witness: the fetch of a later page fails after a full page arrived.
C11_Witness ==
  /\ pc = "failed"
  /\ rejections # <<>>
  /\ Len(pages) >= 1
  /\ Len(allTransactions) >= pageSize
  /\ fetchCalls[Len(fetchCalls)] = Len(pages) * pageSize

====
